---------------------------- MODULE Spec2Model ----------------------------
(***************************************************************************)
(* AdamW with "gradient surgery" (src/optimizer.py).                       *)
(*                                                                         *)
(* Numbers.  A tensor element is a rational <<n, d>> in lowest terms with  *)
(* d > 0, or one of the three IEEE non-finite values: <<0, 0>> (NaN),      *)
(* <<1, 0>> (+inf), <<-1, 0>> (-inf).  +, -, *, / are exact on finite      *)
(* values and follow IEEE-754 on the non-finite ones; the rounding of      *)
(* finite floating-point results is abstracted away, except for sqrt,      *)
(* which is exact on perfect squares and rounded down to a multiple of     *)
(* 1/SqrtGrid otherwise.                                                   *)
(*                                                                         *)
(* Tensors.  A tensor is a sequence of elements; its shape is its length.  *)
(***************************************************************************)
EXTENDS Integers, Sequences, FiniteSets, TLC

VARIABLES opt, args, param_groups, data, grad, state, last, nsteps

vars == <<opt, args, param_groups, data, grad, state, last, nsteps>>

---------------------------------------------------------------------------
(* Scalars *)

Abs(x) == IF x < 0 THEN -x ELSE x

RECURSIVE Gcd(_, _)
Gcd(a, b) == IF b = 0 THEN a ELSE Gcd(b, a % b)

NaN == <<0, 0>>
PosInf == <<1, 0>>
NegInf == <<-1, 0>>

Rat(n, d) ==
    LET g == Gcd(Abs(n), Abs(d))
        s == IF d < 0 THEN -1 ELSE 1
    IN  <<(s * n) \div g, (s * d) \div g>>

R(n) == <<n, 1>>
Zero == <<0, 1>>
One == <<1, 1>>

IsFinite(x) == x[2] # 0
IsNaN(x) == x = NaN
Sign(x) == IF x[1] > 0 THEN 1 ELSE IF x[1] < 0 THEN -1 ELSE 0
SignVal(s) == IF s = 0 THEN NaN ELSE <<s, 0>>

Neg(x) == <<-x[1], x[2]>>

Add(x, y) ==
    IF x[2] = 1 /\ y[2] = 1 THEN <<x[1] + y[1], 1>>
    ELSE IF IsFinite(x) /\ IsFinite(y)
    THEN LET g == Gcd(x[2], y[2])
         IN  Rat(x[1] * (y[2] \div g) + y[1] * (x[2] \div g), (x[2] \div g) * y[2])
    ELSE IF IsNaN(x) \/ IsNaN(y) THEN NaN
    ELSE IF IsFinite(x) THEN y
    ELSE IF IsFinite(y) THEN x
    ELSE IF x = y THEN x ELSE NaN

Sub(x, y) == Add(x, Neg(y))

Mul(x, y) ==
    IF x[2] = 1 /\ y[2] = 1 THEN <<x[1] * y[1], 1>>
    ELSE IF IsFinite(x) /\ IsFinite(y)
    THEN LET g1 == Gcd(Abs(x[1]), y[2])
             g2 == Gcd(Abs(y[1]), x[2])
         IN  <<(x[1] \div g1) * (y[1] \div g2), (x[2] \div g2) * (y[2] \div g1)>>
    ELSE IF IsNaN(x) \/ IsNaN(y) THEN NaN
    ELSE SignVal(Sign(x) * Sign(y))

\* IEEE division, as tensor arithmetic performs it: x/0 is +-inf, 0/0 is NaN.
Div(x, y) ==
    IF IsFinite(x) /\ IsFinite(y)
    THEN IF y[1] = 0 THEN SignVal(Sign(x))
         ELSE Mul(x, Rat(y[2], y[1]))
    ELSE IF IsNaN(x) \/ IsNaN(y) THEN NaN
    ELSE IF IsFinite(x) THEN Zero
    ELSE IF IsFinite(y) THEN SignVal(Sign(x) * (IF y[1] < 0 THEN -1 ELSE 1))
    ELSE NaN

\* the comparison let through at zero: g_dot >= 0
Ge0(x) == x[1] >= 0 /\ ~IsNaN(x)

\* x > 0 as a float comparison: false on NaN.
Gt0(x) == x[1] > 0 /\ ~IsNaN(x)

\* floor(sqrt(k)) by bisection on lo..hi
RECURSIVE ISqrtIn(_, _, _)
ISqrtIn(k, lo, hi) ==
    IF lo >= hi THEN lo
    ELSE LET mid == (lo + hi + 1) \div 2
         IN  IF mid * mid <= k THEN ISqrtIn(k, mid, hi) ELSE ISqrtIn(k, lo, mid - 1)

ISqrt(k) == ISqrtIn(k, 0, IF k < 46340 THEN k ELSE 46340)

SqrtGrid == 8 * 8

\* torch.sqrt / math.sqrt; torch.sqrt of a negative is NaN (math.sqrt raises:
\* see MathError).
Sqrt(x) ==
    IF ~IsFinite(x) THEN (IF x = PosInf THEN PosInf ELSE NaN)
    ELSE IF x[1] < 0 THEN NaN
    ELSE LET rn == ISqrt(x[1])
             rd == ISqrt(x[2])
         IN  IF rn * rn = x[1] /\ rd * rd = x[2] THEN Rat(rn, rd)
             ELSE Rat(ISqrt((x[1] * SqrtGrid * SqrtGrid) \div x[2]), SqrtGrid)

RECURSIVE Pow(_, _)
Pow(x, t) == IF t = 0 THEN One ELSE Mul(x, Pow(x, t - 1))

---------------------------------------------------------------------------
(* Tensors *)

RECURSIVE SumSeq(_)
SumSeq(s) == IF Len(s) = 0 THEN Zero ELSE Add(s[Len(s)], SumSeq(SubSeq(s, 1, Len(s) - 1)))

Max(a, b) == IF a >= b THEN a ELSE b

\* torch broadcasting of two 1-D shapes.
Broadcastable(a, b) == Len(a) = Len(b) \/ Len(a) = 1 \/ Len(b) = 1

At(a, i) == IF Len(a) = 1 THEN a[1] ELSE a[i]

\* Elementwise operations with broadcasting.
BShape(a, b) == 1..Max(Len(a), Len(b))

TAdd(a, b) == [i \in BShape(a, b) |-> Add(At(a, i), At(b, i))]
TSub(a, b) == [i \in BShape(a, b) |-> Sub(At(a, i), At(b, i))]
TDiv(a, b) == [i \in BShape(a, b) |-> Div(At(a, i), At(b, i))]
TMul(a, b) == [i \in BShape(a, b) |-> Mul(At(a, i), At(b, i))]
TScale(c, a) == [i \in 1..Len(a) |-> Mul(c, a[i])]
TSquare(a) == [i \in 1..Len(a) |-> Mul(a[i], a[i])]
TSqrt(a) == [i \in 1..Len(a) |-> Sqrt(a[i])]
TAddScalar(a, c) == [i \in 1..Len(a) |-> Add(a[i], c)]
ZerosLike(a) == [i \in 1..Len(a) |-> Zero]

\* torch.dot(g_i.flatten(), g_j.flatten()) on equal shapes
Dot(a, b) == SumSeq(TMul(a, b))

\* g.norm().item() ** 2
Norm2(a) == Dot(a, a)

---------------------------------------------------------------------------
(* Gradients: p.grad is None or a tensor, dense or sparse *)

NoGrad == [present |-> FALSE, sparse |-> FALSE, val |-> <<>>]
Dense(t) == [present |-> TRUE, sparse |-> FALSE, val |-> t]
SparseG(t) == [present |-> TRUE, sparse |-> TRUE, val |-> t]

\* An entry of the list grads of step: None, or a tensor.  alias is the
\* parameter whose p.grad buffer the tensor shares its storage with, 0 when
\* the tensor owns its storage.
NoEntry == [present |-> FALSE, sparse |-> FALSE, val |-> <<>>, alias |-> 0]

\* grads.append(p.grad.data): the snapshot shares p.grad's storage
SnapshotEntryAliased(p, g) ==
    IF ~g.present THEN NoEntry
    ELSE [present |-> TRUE, sparse |-> g.sparse, val |-> g.val, alias |-> p]

\* grads.append(None) / grads.append(p.grad.data.clone())
SnapshotEntry(p, g) ==
    IF ~g.present THEN NoEntry
    ELSE [present |-> TRUE, sparse |-> g.sparse, val |-> g.val, alias |-> 0]

---------------------------------------------------------------------------
(* gradient_surgery: the pass over the present gradients of the snapshot.  *)
(* The result holds the mutated list, whether the pass raised, and the log *)
(* of the projections it executed, in execution order.                     *)

\* the coefficient taken over g_i's norm: g_dot / g_i.norm().item() ** 2
ProjectOwnNorm(gi, gj, d) == TSub(gi, TScale(Div(d, Norm2(gi)), gj))

\* g_i -= g_dot / g_j.norm().item() ** 2 * g_j
Project(gi, gj, d) == TSub(gi, TScale(Div(d, Norm2(gj)), gj))

\* torch.dot has no sparse kernel: a same-shape pair with a sparse member raises.
RECURSIVE SurgeryFrom(_, _, _, _)
SurgeryFrom(gs, i, j, log) ==
    IF i > Len(gs) THEN [err |-> FALSE, grads |-> gs, log |-> log]
    ELSE IF j > Len(gs) THEN SurgeryFrom(gs, i + 1, i + 2, log)
    ELSE IF Len(gs[i].val) # Len(gs[j].val) THEN SurgeryFrom(gs, i, j + 1, log)
    ELSE IF gs[i].sparse \/ gs[j].sparse THEN [err |-> TRUE, grads |-> gs, log |-> log]
    ELSE LET d == Dot(gs[i].val, gs[j].val)
         IN  IF Gt0(d)
             THEN SurgeryFrom([gs EXCEPT ![i].val = Project(gs[i].val, gs[j].val, d)],
                              i, j + 1,
                              Append(log, [i |-> i, j |-> j, d |-> d,
                                           n2 |-> Norm2(gs[j].val),
                                           gj |-> gs[j].val]))
             ELSE SurgeryFrom(gs, i, j + 1, log)

\* the pass with every g_dot taken from the g_i of before the pass
RECURSIVE SurgeryStale(_, _, _, _, _)
SurgeryStale(gs0, gs, i, j, log) ==
    IF i > Len(gs) THEN [err |-> FALSE, grads |-> gs, log |-> log]
    ELSE IF j > Len(gs) THEN SurgeryStale(gs0, gs, i + 1, i + 2, log)
    ELSE IF Len(gs[i].val) # Len(gs[j].val) THEN SurgeryStale(gs0, gs, i, j + 1, log)
    ELSE IF gs[i].sparse \/ gs[j].sparse THEN [err |-> TRUE, grads |-> gs, log |-> log]
    ELSE LET d == Dot(gs0[i].val, gs[j].val)
         IN  IF Gt0(d)
             THEN SurgeryStale(gs0, [gs EXCEPT ![i].val = Project(gs[i].val, gs[j].val, d)],
                               i, j + 1,
                               Append(log, [i |-> i, j |-> j, d |-> d,
                                            n2 |-> Norm2(gs[j].val),
                                            gj |-> gs[j].val]))
             ELSE SurgeryStale(gs0, gs, i, j + 1, log)

gradient_surgery_stale(gs) == SurgeryStale(gs, gs, 1, 2, <<>>)

gradient_surgery(gs) == SurgeryFrom(gs, 1, 2, <<>>)

---------------------------------------------------------------------------
(* Parameter state: self.state[p] is {} or {m, v, t} *)

NoState == [init |-> FALSE, m |-> <<>>, v |-> <<>>, t |-> 0]

\* alpha_t = alpha * math.sqrt(1 - math.pow(beta2, t)) / (1 - math.pow(beta1, t))
BiasCorrected(alpha, beta1, beta2, t) ==
    Div(Mul(alpha, Sqrt(Sub(One, Pow(beta2, t)))), Sub(One, Pow(beta1, t)))

\* Python float arithmetic raises where tensor arithmetic yields NaN or inf.
MathError(beta1, beta2, t) ==
    \/ Sub(One, Pow(beta2, t))[1] < 0
    \/ Sub(One, Pow(beta1, t))[1] = 0

\* the learning rate left out of the decay: p.data - lam * p
WeightDecayNoLr(alpha, lam, q) == TSub(q, TScale(lam, q))

\* p.data = p.data - alpha * lam * p
WeightDecay(alpha, lam, q) == TSub(q, TScale(Mul(alpha, lam), q))

\* Lines 64-79 for one parameter with value d, state s and dense gradient g
\* under the hyperparameters of group h.
AdamUpdate(h, d, s, g) ==
    LET s0 == IF s.init THEN s
              ELSE [init |-> TRUE, m |-> ZerosLike(d), v |-> ZerosLike(d), t |-> 0]
        t == s0.t + 1
    IN  IF ~Broadcastable(s0.m, g) \/ MathError(h.beta1, h.beta2, t)
        THEN [ok |-> FALSE, data |-> d, state |-> s0]
        ELSE LET m == TAdd(TScale(h.beta1, s0.m), TScale(Sub(One, h.beta1), g))
                 v == TAdd(TScale(h.beta2, s0.v), TScale(Sub(One, h.beta2), TSquare(g)))
                 alpha_t == BiasCorrected(h.lr, h.beta1, h.beta2, t)
             IN  IF ~Broadcastable(d, m)
                 THEN [ok |-> FALSE, data |-> d, state |-> s0]
                 ELSE LET q == TSub(d, TDiv(TScale(alpha_t, m),
                                            TAddScalar(TSqrt(v), h.eps)))
                      IN  [ok |-> TRUE,
                           data |-> WeightDecay(h.lr, h.weight_decay, q),
                           state |-> [init |-> TRUE, m |-> m, v |-> v, t |-> t]]

---------------------------------------------------------------------------
(* step *)

Params == 1..3

RECURSIVE Flatten(_)
Flatten(ss) == IF ss = <<>> THEN <<>> ELSE Head(ss) \o Flatten(Tail(ss))

\* for group in self.param_groups: for p in group["params"]: grads.append(...)
Snapshot(groups, attached) ==
    LET flat == Flatten([k \in 1..Len(groups) |-> groups[k].params])
    IN  [k \in 1..Len(flat) |-> SnapshotEntry(flat[k], attached[flat[k]])]

IsPresent(e) == e.present

Rank(snap, k) == Cardinality({i \in 1..k : snap[i].present})

\* self.gradient_surgery([g for g in grads if g is not None]): the filtered
\* list holds the same tensors as grads, so the pass mutates grads' entries.
Resolve(snap) ==
    LET surg == gradient_surgery(SelectSeq(snap, IsPresent))
    IN  [err |-> surg.err,
         log |-> surg.log,
         grads |-> [k \in 1..Len(snap) |->
                      IF snap[k].present THEN surg.grads[Rank(snap, k)] ELSE snap[k]]]

\* The p.grad buffers after the pass: an in-place write to a snapshot tensor
\* reaches p.grad exactly when the tensor shares p.grad's storage.
Buffers(attached, grads) ==
    [p \in DOMAIN attached |->
        IF \E k \in 1..Len(grads) : grads[k].alias = p
        THEN LET k == CHOOSE k \in 1..Len(grads) : grads[k].alias = p
             IN  [attached[p] EXCEPT !.val = grads[k].val]
        ELSE attached[p]]

\* The update loop (lines 57-79) from group gi, position idx, over the
\* resolved list grads.
RECURSIVE UpdateFrom(_, _, _, _, _, _)
UpdateFrom(groups, grads, gi, idx, d, st) ==
    IF gi > Len(groups) THEN [data |-> d, state |-> st, err |-> "none"]
    ELSE IF idx > Len(groups[gi].params) THEN UpdateFrom(groups, grads, gi + 1, 1, d, st)
    ELSE LET p == groups[gi].params[idx]
             g == grads[idx]
         IN  IF ~g.present THEN UpdateFrom(groups, grads, gi, idx + 1, d, st)
             ELSE IF g.sparse THEN [data |-> d, state |-> st, err |-> "sparse"]
             ELSE LET u == AdamUpdate(groups[gi], d[p], st[p], g.val)
                      d1 == [d EXCEPT ![p] = u.data]
                      st1 == [st EXCEPT ![p] = u.state]
                  IN  IF u.ok THEN UpdateFrom(groups, grads, gi, idx + 1, d1, st1)
                      ELSE [data |-> d1, state |-> st1, err |-> "arith"]

\* AdamW.step without a closure: the values after the call, the error it
\* raised ("none" when it returned), and the resolved snapshot.
StepResult(groups, d, attached, st) ==
    LET res == Resolve(Snapshot(groups, attached))
        upd == UpdateFrom(groups, res.grads, 1, 1, d, st)
    IN  IF res.err
        THEN [data |-> d, state |-> st, grad |-> Buffers(attached, res.grads),
              err |-> "dot", resolved |-> res.grads, log |-> res.log]
        ELSE [data |-> upd.data, state |-> upd.state,
              grad |-> Buffers(attached, res.grads),
              err |-> upd.err, resolved |-> res.grads, log |-> res.log]

\* The update loop of the plain AdamW step kept in the source as the
\* commented-out copy: every parameter reads its own p.grad.data.
RECURSIVE BaselineFrom(_, _, _, _, _, _)
BaselineFrom(groups, attached, gi, idx, d, st) ==
    IF gi > Len(groups) THEN [data |-> d, state |-> st, err |-> "none"]
    ELSE IF idx > Len(groups[gi].params) THEN BaselineFrom(groups, attached, gi + 1, 1, d, st)
    ELSE LET p == groups[gi].params[idx]
             g == attached[p]
         IN  IF ~g.present THEN BaselineFrom(groups, attached, gi, idx + 1, d, st)
             ELSE IF g.sparse THEN [data |-> d, state |-> st, err |-> "sparse"]
             ELSE LET u == AdamUpdate(groups[gi], d[p], st[p], g.val)
                      d1 == [d EXCEPT ![p] = u.data]
                      st1 == [st EXCEPT ![p] = u.state]
                  IN  IF u.ok THEN BaselineFrom(groups, attached, gi, idx + 1, d1, st1)
                      ELSE [data |-> d1, state |-> st1, err |-> "arith"]

baseline_step(groups, d, attached, st) == BaselineFrom(groups, attached, 1, 1, d, st)

\* What step returns: None, or a value.
NoneVal == [none |-> TRUE, val |-> Zero]
Some(x) == [none |-> FALSE, val |-> x]

\* The closure argument of step: None, or a callable that re-evaluates the
\* model (its backward pass attaches the gradients grads) and returns loss.
NoClosure == [given |-> FALSE, grads |-> <<>>, loss |-> NoneVal]
Closure(g, l) == [given |-> TRUE, grads |-> g, loss |-> l]

\* What one invocation of the closure saw of the parameters and their state.
Saw(d, st) == <<[data |-> d, state |-> st]>>

\* the closure invoked after the update loop instead of before the snapshot
stepClosureLast(groups, d, attached, st, closure) ==
    LET r == StepResult(groups, d, attached, st)
    IN  [data |-> r.data, state |-> r.state, err |-> r.err,
         grad |-> IF closure.given /\ r.err = "none" THEN closure.grads ELSE r.grad,
         resolved |-> r.resolved, log |-> r.log,
         attached |-> attached,
         snapshot |-> Snapshot(groups, attached),
         seen |-> IF closure.given /\ r.err = "none" THEN Saw(r.data, r.state) ELSE <<>>,
         loss |-> IF closure.given THEN closure.loss ELSE NoneVal]

\* AdamW.step(closure): lines 42-44 run the closure, lines 45-79 are the
\* update on the gradients then attached, line 80 returns loss.
step(groups, d, attached, st, closure) ==
    StepResult(groups, d, IF closure.given THEN closure.grads ELSE attached, st)
        @@ [attached |-> IF closure.given THEN closure.grads ELSE attached,
            snapshot |-> Snapshot(groups, IF closure.given THEN closure.grads ELSE attached),
            seen |-> IF closure.given THEN Saw(d, st) ELSE <<>>,
            loss |-> IF closure.given THEN closure.loss ELSE NoneVal]

---------------------------------------------------------------------------
(* Constructor *)

\* beta2 = 1 let through: 0.0 <= betas[1] <= 1.0
RejectedBeta2Closed(a) ==
    \/ a.lr[1] < 0
    \/ ~(a.beta1[1] >= 0 /\ a.beta1[1] < a.beta1[2])
    \/ ~(a.beta2[1] >= 0 /\ a.beta2[1] <= a.beta2[2])
    \/ ~(a.eps[1] >= 0)

\* the eps check left out
RejectedNoEps(a) ==
    \/ a.lr[1] < 0
    \/ ~(a.beta1[1] >= 0 /\ a.beta1[1] < a.beta1[2])
    \/ ~(a.beta2[1] >= 0 /\ a.beta2[1] < a.beta2[2])

\* lines 17-24: the checks that raise ValueError
Rejected(a) ==
    \/ a.lr[1] < 0
    \/ ~(a.beta1[1] >= 0 /\ a.beta1[1] < a.beta1[2])
    \/ ~(a.beta2[1] >= 0 /\ a.beta2[1] < a.beta2[2])
    \/ ~(a.eps[1] >= 0)

\* lines 25-26: every group receives the defaults
MakeGroups(a, layout) ==
    [k \in 1..Len(layout) |->
        [params |-> layout[k], lr |-> a.lr, beta1 |-> a.beta1, beta2 |-> a.beta2,
         eps |-> a.eps, weight_decay |-> a.weight_decay]]

---------------------------------------------------------------------------
(* Bounded inputs *)

MaxSteps == 2

Half == Rat(1, 2)

\* constructor arguments
Lrs == {R(-1), Zero, One}
Beta1s == {R(-1), Zero, Half, One}
Beta2s == {R(-1), Zero, Rat(3, 4), One}
Epss == {R(-1), Zero, One}
Wds == {R(-1), Zero, Half}

Args(L, B1, B2, E, W) ==
    [lr : L, beta1 : B1, beta2 : B2, eps : E, weight_decay : W]

AllArgs == Args(Lrs, Beta1s, Beta2s, Epss, Wds)

\* the arguments the optimizers that take steps are built from
RunArgs ==
    Args({R(-1), Half}, {Half}, {Rat(3, 4)}, {One}, {Zero, Half})
        \cup Args({Half}, {Half}, {Zero}, {Zero}, {Zero, Half})

\* the model's three parameters: their shapes, and how params groups them
Models ==
    { [shapes |-> <<2, 2, 2>>, layout |-> << <<1, 2, 3>> >>],
      [shapes |-> <<1, 2, 2>>, layout |-> << <<1, 2, 3>> >>],
      [shapes |-> <<1, 2, 2>>, layout |-> << <<1>>, <<2, 3>> >>] }

Fit(v, n) == SubSeq(v, 1, n)

\* the gradients backward may attach to parameter p of shape n
GradChoices(p, n) ==
    CASE p = 1 -> {NoGrad, Dense(Fit(<<One, Zero>>, n)), Dense(Fit(<<Zero, Zero>>, n))}
      [] p = 2 -> {NoGrad, Dense(Fit(<<One, One>>, n)), SparseG(Fit(<<One, One>>, n))}
      [] p = 3 -> {NoGrad, Dense(Fit(<<Zero, One>>, n)), Dense(Fit(<<One, Zero>>, n)),
                   Dense(Fit(<<Zero, Zero>>, n))}

\* the values a closure may return
Losses == {Some(Zero), Some(Half)}

\* the gradients a closure may attach
ClosureGrads ==
    { <<Dense(Fit(<<One, Zero>>, Len(data[1]))), NoGrad, Dense(Fit(<<Zero, One>>, Len(data[3])))>>,
      <<NoGrad, Dense(Fit(<<One, One>>, Len(data[2]))), NoGrad>> }

Closures == {Closure(g, l) : g \in ClosureGrads, l \in Losses}

---------------------------------------------------------------------------
(* State machine *)

NoCall(d, g, st) ==
    [called |-> FALSE, err |-> "none", data |-> d, state |-> st, grad |-> g,
     resolved |-> <<>>, log |-> <<>>, closure |-> NoClosure, before |-> g,
     snapshot |-> <<>>, seen |-> <<>>, ret |-> NoneVal]

NoArgs == [lr |-> Zero, beta1 |-> Zero, beta2 |-> Zero, eps |-> Zero,
           weight_decay |-> Zero]

Init ==
    /\ opt = "new"
    /\ args = NoArgs
    /\ param_groups = <<>>
    /\ \E mo \in Models : data = [p \in Params |-> [i \in 1..mo.shapes[p] |-> R(i)]]
    /\ grad = [p \in Params |-> NoGrad]
    /\ state = [p \in Params |-> NoState]
    /\ last = NoCall(data, grad, state)
    /\ nsteps = 0

\* AdamW.__init__(params, lr, betas, eps, weight_decay)
AdamW_init(a, layout) ==
    /\ opt = "new"
    /\ args' = a
    /\ IF Rejected(a)
       THEN /\ opt' = "failed"
            /\ UNCHANGED param_groups
       ELSE /\ opt' = "ok"
            /\ param_groups' = MakeGroups(a, layout)
    /\ UNCHANGED <<data, grad, state, last, nsteps>>

\* optimizer.step(closure) on the gradients g attached before the call.  An
\* exception raised by step ends the run.
Step(g, closure) ==
    /\ opt = "ok"
    /\ last.err = "none"
    /\ nsteps < MaxSteps
    /\ \E r \in {step(param_groups, data, g, state, closure)} :
           /\ data' = r.data
           /\ state' = r.state
           /\ grad' = r.grad
           /\ last' = [called |-> TRUE, err |-> r.err, data |-> data, state |-> state,
                       grad |-> r.attached, resolved |-> r.resolved, log |-> r.log,
                       closure |-> closure, before |-> g, snapshot |-> r.snapshot,
                       seen |-> r.seen, ret |-> r.loss]
    /\ nsteps' = nsteps + 1
    /\ UNCHANGED <<opt, args, param_groups>>

\* One iteration of the training loop: backward attaches the gradients g,
\* then optimizer.step() runs.
TrainStep(g) == Step(g, NoClosure)

Backward ==
    \E g1 \in GradChoices(1, Len(data[1])), g2 \in GradChoices(2, Len(data[2])),
       g3 \in GradChoices(3, Len(data[3])) : TrainStep(<<g1, g2, g3>>)

\* optimizer.step(closure): the gradients of the previous iteration are still
\* attached when the call starts.
ClosureStep == \E c \in Closures : Step(grad, c)

Layouts == {mo.layout : mo \in {x \in Models : \A p \in Params : x.shapes[p] = Len(data[p])}}

Construct == \E a \in RunArgs, l \in Layouts : AdamW_init(a, l)

ConstructAny == \E a \in AllArgs, l \in Layouts : AdamW_init(a, l)

Next == Construct \/ Backward \/ ClosureStep

Spec == Init /\ [][Next]_vars

NextCtor == ConstructAny

SpecCtor == Init /\ [][NextCtor]_vars

---------------------------------------------------------------------------
(* Properties *)

\* the managed parameters in order, and a parameter's place and group
Flat == Flatten([k \in 1..Len(param_groups) |-> param_groups[k].params])
IndexOf(p) == CHOOSE k \in 1..Len(Flat) : Flat[k] = p
GroupOf(p) == CHOOSE k \in 1..Len(param_groups) :
                  \E i \in 1..Len(param_groups[k].params) : param_groups[k].params[i] = p

\* the last action was a step call that returned / a step call
Returned == last.called /\ last.err = "none"
Untouched(p) == data[p] = last.data[p] /\ state[p] = last.state[p]

\* what lines 64-79 make of parameter p, from its value and state before the
\* call and its own resolved gradient
OwnUpdate(p) ==
    AdamUpdate(param_groups[GroupOf(p)], last.data[p], last.state[p],
               last.resolved[IndexOf(p)].val)

\* C1: a managed parameter whose gradient is absent at a step call is left
\* untouched by the call: value and ParameterState (m, v, t) as before, no
\* state created.  (As claimed; the code breaks it with several groups.)
C1_AbsentUntouched ==
    last.called =>
        \A p \in Params : ~last.grad[p].present => Untouched(p)

\* C2: in a step call that returns, every parameter with a present gradient
\* is updated, and with the resolved snapshot copy of its own gradient.
\* (As claimed; the code breaks it with several groups.)
C2_OwnGradientUsed ==
    Returned =>
        \A p \in Params :
            last.grad[p].present =>
                /\ state[p].init
                /\ state[p].t = last.state[p].t + 1
                /\ state[p] = OwnUpdate(p).state
                /\ data[p] = OwnUpdate(p).data

\* lr > 0, beta1 and beta2 in [0,1), eps >= 0, weight_decay >= 0
ValidHyper(h) ==
    /\ h.lr[1] > 0
    /\ h.beta1[1] >= 0 /\ h.beta1[1] < h.beta1[2]
    /\ h.beta2[1] >= 0 /\ h.beta2[1] < h.beta2[2]
    /\ h.eps[1] >= 0
    /\ h.weight_decay[1] >= 0

\* what the constructor checks: lr >= 0, beta1 and beta2 in [0,1), eps >= 0
CheckedHyper(h) ==
    /\ h.lr[1] >= 0
    /\ h.beta1[1] >= 0 /\ h.beta1[1] < h.beta1[2]
    /\ h.beta2[1] >= 0 /\ h.beta2[1] < h.beta2[2]
    /\ h.eps[1] >= 0

C4_ConstructionFails ==
    opt # "new" /\ ~CheckedHyper(args) =>
        /\ opt = "failed"
        /\ param_groups = <<>>
        /\ \A p \in Params : state[p] = NoState

C4_Witness ==
    /\ opt = "failed"
    /\ args.lr[1] >= 0
    /\ args.beta1 = Half
    /\ args.beta2 = One
    /\ args.eps = One

\* C5 as claimed: in a step call that returns, a parameter's t grows by
\* exactly 1 when its gradient is present and stays when it is absent.
\* (The code breaks it with several groups.)
C5_StepCounter ==
    Returned =>
        \A p \in Params :
            state[p].t = last.state[p].t + (IF last.grad[p].present THEN 1 ELSE 0)

\* the first managed parameter, in processing order, whose gradient is sparse
FirstSparse ==
    CHOOSE k \in 1..Len(Flat) :
        /\ last.grad[Flat[k]].sparse
        /\ \A j \in 1..(k - 1) : ~last.grad[Flat[j]].sparse

\* C6 as claimed: when step raises the sparse-gradient error, the parameters
\* before the sparse-gradient parameter that had a gradient are updated, and
\* the sparse-gradient parameter and all after it are as before the call.
\* (The code breaks it with several groups.)
C6_SparseAbort ==
    last.called /\ last.err = "sparse" =>
        \A p \in Params :
            IF IndexOf(p) < FirstSparse
            THEN last.grad[p].present =>
                     /\ state[p] = OwnUpdate(p).state
                     /\ data[p] = OwnUpdate(p).data
            ELSE Untouched(p)

\* C7: a step call leaves the gradient attached to every parameter as it was
\* before the call, an absent one absent, whether or not a projection was
\* applied and whether or not the call raised.
C7_BuffersIntact == last.called => grad = last.grad

C7_Witness ==
    /\ last.called
    /\ last.log # <<>>
    /\ \E k \in 1..Len(Flat) :
           /\ last.resolved[k].present
           /\ last.resolved[k].val # grad[Flat[k]].val
    /\ \E p \in Params : ~grad[p].present

\* the last step call run again with weight_decay = 0 in every group
NoDecay(groups) == [k \in 1..Len(groups) |-> [groups[k] EXCEPT !.weight_decay = Zero]]
NoDecayRun == StepResult(NoDecay(param_groups), last.data, last.grad, last.state)

\* parameter p took a gradient step in the last call
Stepped(p) == state[p].init /\ state[p].t = last.state[p].t + 1

DecayFactor(h) == Sub(One, Mul(h.lr, h.weight_decay))

AllFinite(t) == \A i \in 1..Len(t) : IsFinite(t[i])

\* C8: with weight_decay = w > 0, the value of a parameter after its step is
\* (1 - lr*w) times its value after the same step with weight_decay = 0, and
\* m, v, t are the same in both.  (An element that is NaN without decay is
\* NaN with it.)
C8_DecayLaw ==
    last.called /\ args.weight_decay[1] > 0 =>
        \A r \in {NoDecayRun} :
        \A p \in Params :
            Stepped(p) =>
                /\ data[p] = TScale(DecayFactor(param_groups[GroupOf(p)]), r.data[p])
                /\ state[p] = r.state[p]

C8_Witness ==
    /\ last.called
    /\ args.weight_decay[1] > 0
    /\ \E p \in Params :
           /\ Stepped(p)
           /\ state[p].t = 2
           /\ \E r \in {NoDecayRun} :
                  /\ AllFinite(r.data[p])
                  /\ data[p] # r.data[p]
                  /\ data[p] = TScale(DecayFactor(param_groups[GroupOf(p)]), r.data[p])

\* C9 as claimed: the step that creates a parameter's state leaves t = 1,
\* m = (1 - beta1)*g and v = (1 - beta2)*g^2, g being the parameter's own
\* resolved gradient.  (The code breaks it with several groups.)
C9_FirstStep ==
    last.called =>
        \A p \in Params :
            ~last.state[p].init /\ state[p].init =>
                /\ last.resolved[IndexOf(p)].present
                /\ state[p].t = 1
                /\ state[p].m =
                       TScale(Sub(One, param_groups[GroupOf(p)].beta1),
                              last.resolved[IndexOf(p)].val)
                /\ state[p].v =
                       TScale(Sub(One, param_groups[GroupOf(p)].beta2),
                              TSquare(last.resolved[IndexOf(p)].val))

\* the gradients attached at the last call, in managed order
G(k) == last.grad[Flat[k]].val

\* the last call saw three dense gradients of one shape
ThreeSame ==
    /\ last.called
    /\ \A p \in Params : last.grad[p].present /\ ~last.grad[p].sparse
    /\ Len(G(1)) = Len(G(2)) /\ Len(G(2)) = Len(G(3))

PairwisePositive ==
    /\ Gt0(Dot(G(1), G(2)))
    /\ Gt0(Dot(G(1), G(3)))
    /\ Gt0(Dot(G(2), G(3)))

\* g0 = [1,0], g1 = [1,1], g2 = [0,1]
SpecExample ==
    /\ G(1) = <<One, Zero>>
    /\ G(2) = <<One, One>>
    /\ G(3) = <<Zero, One>>

Pair(e) == <<e.i, e.j>>

\* g0 after its projection against g1
G1Projected == Project(G(1), G(2), Dot(G(1), G(2)))

\* C10 as claimed: with pairwise positive dot products (and in the spec's
\* example) g0 is projected twice, against g1 and then, updated, against g2,
\* and g2 is not modified.
C10_ProjectedTwice ==
    ThreeSame /\ (PairwisePositive \/ SpecExample) =>
        /\ Len(last.log) >= 2
        /\ Pair(last.log[1]) = <<1, 2>>
        /\ Pair(last.log[2]) = <<1, 3>>
        /\ last.log[2].d = Dot(G1Projected, G(3))
        /\ last.resolved[3].val = G(3)

\* C10 amended: with pairwise positive dot products (and in the spec's
\* example) the pass projects g0 against g1 first; it then projects the updated
\* g0 against g2 exactly when the updated g0 . g2 is positive, and otherwise
\* leaves it; g2 is not modified.  In the spec's example g0 is projected once,
\* to [1/2, -1/2], and g1 is then projected against g2.
C10_Ordering ==
    ThreeSame /\ (PairwisePositive \/ SpecExample) =>
        /\ Len(last.log) >= 1
        /\ Pair(last.log[1]) = <<1, 2>>
        /\ last.log[1].d = Dot(G(1), G(2))
        /\ IF Gt0(Dot(G1Projected, G(3)))
           THEN /\ Len(last.log) >= 2
                /\ Pair(last.log[2]) = <<1, 3>>
                /\ last.log[2].d = Dot(G1Projected, G(3))
                /\ last.resolved[1].val =
                       Project(G1Projected, G(3), Dot(G1Projected, G(3)))
           ELSE /\ last.resolved[1].val = G1Projected
                /\ \A n \in 1..Len(last.log) : Pair(last.log[n]) # <<1, 3>>
        /\ last.resolved[3].val = G(3)
        /\ SpecExample =>
               /\ last.resolved[1].val = <<Half, Neg(Half)>>
               /\ <<Pair(last.log[1]), Pair(last.log[2])>> = << <<1, 2>>, <<2, 3>> >>
               /\ Len(last.log) = 2

C10_Witness ==
    /\ ThreeSame
    /\ PairwisePositive
    /\ Len(last.log) >= 2
    /\ Pair(last.log[2]) = <<1, 3>>
    /\ last.log[2].d # Dot(G(1), G(3))
    /\ last.resolved[1].val = <<Zero, Neg(Half)>>

---------------------------------------------------------------------------
(* C11 *)

AllZero(t) == \A i \in 1..Len(t) : t[i] = Zero

\* p.grad was a dense all-zero tensor in the last call
ZeroGrad(p) == last.grad[p].present /\ ~last.grad[p].sparse /\ AllZero(last.grad[p].val)

\* no state yet, or m = v = 0
MomentsZero(s) == ~s.init \/ (AllZero(s.m) /\ AllZero(s.v))

\* C11 as claimed: with weight_decay = 0 and accepted hyperparameters, a step
\* in which a parameter's gradient is all-zero (its moments being zero so far)
\* leaves the parameter's value unchanged, leaves m = v = 0 and adds 1 to t.
\* (The code breaks it: eps = 0 is accepted and gives 0/0; with several
\* groups the parameter is updated with another parameter's gradient.)
C11_ZeroGradIdempotent ==
    Returned =>
        \A p \in Params :
            /\ param_groups[GroupOf(p)].weight_decay = Zero
            /\ ZeroGrad(p)
            /\ MomentsZero(last.state[p])
            => /\ data[p] = last.data[p]
               /\ state[p].init
               /\ AllZero(state[p].m) /\ AllZero(state[p].v)
               /\ state[p].t = last.state[p].t + 1

---------------------------------------------------------------------------
(* C12 *)

\* C12: a supplied closure is invoked exactly once, on the parameter values
\* and states of before the call, the snapshot is taken from the gradients
\* the closure attached, and step returns the closure's result; without a
\* closure nothing is invoked, the snapshot is taken from the gradients
\* attached before the call, and step returns None.
C12_ClosureHook ==
    last.called =>
        IF last.closure.given
        THEN /\ last.seen = Saw(last.data, last.state)
             /\ last.snapshot = Snapshot(param_groups, last.closure.grads)
             /\ last.err = "none" => last.ret = last.closure.loss
        ELSE /\ last.seen = <<>>
             /\ last.snapshot = Snapshot(param_groups, last.before)
             /\ last.err = "none" => last.ret = NoneVal

\* a second step, with a closure whose gradients differ from those attached
\* before the call, has updated a parameter and returned the closure's value
C12_Witness ==
    /\ last.called /\ last.closure.given /\ last.err = "none"
    /\ nsteps = 2
    /\ last.before # last.closure.grads
    /\ last.ret = Some(Half)
    /\ \E p \in Params : data[p] # last.data[p] /\ last.state[p].init

---------------------------------------------------------------------------
(* C13 *)

\* the list handed to the pass, and the same list after the pass
PassIn == SelectSeq(last.snapshot, IsPresent)
PassOut == SelectSeq(last.resolved, IsPresent)

\* g - (d / ||gj||^2) * gj, element by element
Projection(g, gj, d) ==
    [x \in 1..Len(g) |-> Sub(g[x], Mul(Div(d, SumSeq([y \in 1..Len(gj) |-> Mul(gj[y], gj[y])])), gj[x]))]

\* g[i] as the pair (i, j) finds it: the g[i] of before the pass with the
\* logged projections of the pairs (i, j') with j' < j applied in order
RECURSIVE CurFrom(_, _, _, _)
CurFrom(g, i, j, k) ==
    IF k > Len(last.log) THEN g
    ELSE IF last.log[k].i = i /\ last.log[k].j < j
         THEN CurFrom(Projection(g, last.log[k].gj, last.log[k].d), i, j, k + 1)
         ELSE CurFrom(g, i, j, k + 1)

Cur(i, j) == CurFrom(PassIn[i].val, i, j, 1)

Logged(i, j) == {k \in 1..Len(last.log) : Pair(last.log[k]) = <<i, j>>}

\* C13: the pass runs the pairs (i, j), i < j, of the present gradients in
\* ascending i then ascending j; a pair of different shapes or with
\* d = g[i].g[j] <= 0 changes nothing; a pair of equal shapes with d > 0
\* replaces g[i] by g[i] - (d / ||g[j]||^2) * g[j], taken from the current
\* g[i] and the g[j] of before the pass; nothing else is changed.
C13_PairSemantics ==
    last.called /\ last.err # "dot" =>
        /\ Len(PassOut) = Len(PassIn)
        /\ \A k \in 1..(Len(last.log) - 1) :
               \/ last.log[k].i < last.log[k + 1].i
               \/ last.log[k].i = last.log[k + 1].i /\ last.log[k].j < last.log[k + 1].j
        /\ \A i \in 1..Len(PassIn) :
               /\ PassOut[i].val = Cur(i, Len(PassIn) + 1)
               /\ \A j \in (i + 1)..Len(PassIn) :
                      IF /\ Len(PassIn[i].val) = Len(PassIn[j].val)
                         /\ Gt0(Dot(Cur(i, j), PassIn[j].val))
                      THEN \E k \in Logged(i, j) :
                               /\ Logged(i, j) = {k}
                               /\ last.log[k].d = Dot(Cur(i, j), PassIn[j].val)
                               /\ last.log[k].gj = PassIn[j].val
                      ELSE Logged(i, j) = {}

\* a pass over three gradients that projected g[1] twice, the second time
\* with a dot product that differs from the one of before the pass
C13_Witness ==
    /\ last.called /\ last.err = "none"
    /\ Len(PassIn) = 3
    /\ Logged(1, 2) # {} /\ Logged(1, 3) # {} /\ Logged(2, 3) # {}
    /\ \E k \in Logged(1, 3) : last.log[k].d # Dot(PassIn[1].val, PassIn[3].val)
    /\ PassOut[1].val # PassIn[1].val
    /\ PassOut[3].val = PassIn[3].val

---------------------------------------------------------------------------
(* C14 *)

\* C14: every projection the pass executed had d > 0 and divided by a
\* strictly positive (in particular nonzero) ||g[j]||^2.
C14_NoZeroNorm ==
    last.called =>
        \A k \in 1..Len(last.log) :
            /\ last.log[k].d[1] > 0
            /\ last.log[k].n2[1] > 0 /\ last.log[k].n2[2] > 0

\* a pass that executed a projection while an all-zero gradient of the same
\* shape was in the list
C14_Witness ==
    /\ last.called /\ last.err = "none"
    /\ Len(last.log) >= 1
    /\ \E i, j \in 1..Len(PassIn) :
           /\ i < j
           /\ Len(PassIn[i].val) = Len(PassIn[j].val)
           /\ AllZero(PassIn[j].val)
           /\ ~AllZero(PassIn[i].val)

---------------------------------------------------------------------------
(* C15 *)

SingleGroup == Len(param_groups) = 1

\* no two present gradients of the last call have both the same shape and a
\* strictly positive dot product
NoPositivePair ==
    \A i, j \in 1..Len(PassIn) :
        i < j /\ Len(PassIn[i].val) = Len(PassIn[j].val)
            => ~Gt0(Dot(PassIn[i].val, PassIn[j].val))

\* the plain AdamW step run from the state and on the gradients of the last call
BaselineRun == baseline_step(param_groups, last.data, last.grad, last.state)

NoSparse == \A p \in Params : ~last.grad[p].sparse

\* C15 as claimed: with a single group and no same-shape pair of present
\* gradients with a positive dot product, the pass changes no gradient and
\* step leaves the parameter values and states the plain AdamW step leaves.
\* (The code breaks it when a sparse gradient has a same-shape peer: the
\* pass raises before any update.)
C15_BaselineEquivalence ==
    last.called /\ SingleGroup /\ NoPositivePair =>
        \A b \in {BaselineRun} :
            /\ last.log = <<>>
            /\ \A k \in 1..Len(last.resolved) : last.resolved[k].val = last.snapshot[k].val
            /\ data = b.data
            /\ state = b.state
            /\ (last.err = "none") <=> (b.err = "none")

=============================================================================
